---- MODULE Spec2Model ----
(***************************************************************************)
(* Model of fuse/seaf-fuse.c: the path resolver parse_fuse_path and the    *)
(* FUSE handlers seaf_fuse_getattr, seaf_fuse_readdir, seaf_fuse_open and  *)
(* seaf_fuse_read, run against a repository registry, a commit store and   *)
(* a tree/object store.                                                    *)
(*                                                                         *)
(* C strings are sequences of one-character strings.  A handler call is    *)
(* one action; the outcome of the call (return value, the resolver's two   *)
(* output strings and the ordered list of allocator / collaborator         *)
(* invocations it made) is kept in the variable last until the worker      *)
(* takes the next request.                                                 *)
(***************************************************************************)
EXTENDS Integers, Sequences, FiniteSets, TLC

VARIABLES repo_mgr, commit_mgr, fs_mgr, crashed, last, vfs, calls, null_read

vars == <<repo_mgr, commit_mgr, fs_mgr, crashed, last, vfs, calls, null_read>>

----------------------------------------------------------------------------
(* Program constants *)

IdLen == 36          \* length of a repository identifier
O_RDONLY == 0
O_ACCMODE == 3       \* the mask "3" applied to info->flags
EACCES == 13
ENOENT == 2
S_IFMT == 61440      \* 0170000
S_IFREG == 32768     \* 0100000

NULL == "NULL"

(* Bounds of the explored inputs *)

MaxLead == 1         \* leading separators put in front of a path
MaxCompLen == 37     \* longest first path component
MaxFlag == 5         \* flags range over 0..MaxFlag

----------------------------------------------------------------------------
(* Input alphabet *)

Sep == "/"

IdA == <<"3", "b", "2", "e", "4", "f", "6", "a", "-", "9", "1", "c", "7", "-", "4", "d", "5", "8", "-", "a", "0", "b", "3", "-", "7", "e", "2", "f", "9", "c", "1", "d", "5", "a", "6", "4">>

\* a second identifier, equal to IdA up to its last character
IdB == [IdA EXCEPT ![IdLen] = "5"]

Ids == {IdA, IdB}

Root == <<"/">>
Empty == <<>>
Docs == <<"d", "o", "c", "s">>
DocsReadme == Docs \o <<"/", "r", "e", "a", "d", "m", "e", ".", "t", "x", "t">>
SlashDocsReadme == <<"/">> \o DocsReadme
FileG == <<"g">>
LinkL == <<"l">>
NoneX == <<"x">>

\* the characters of a first component of length n: the identifier id,
\* cut short or followed by excess characters
Component(id, n) ==
    IF n <= IdLen THEN SubSeq(id, 1, n)
    ELSE id \o [i \in 1..(n - IdLen) |-> "x"]

CompLens == {0, 1} \cup ((IdLen - 1)..MaxCompLen)

Rests == {Empty, Docs, DocsReadme, SlashDocsReadme, FileG, LinkL, NoneX}

Tails == {Empty} \cup {<<Sep>> \o r : r \in Rests}

Lead(k) == [i \in 1..k |-> Sep]

Paths == {Lead(k) \o Component(id, n) \o t :
             k \in 0..MaxLead, id \in Ids, n \in CompLens, t \in Tails}

Flags == 0..MaxFlag

\* (size, offset) pairs handed to read
ReadArgs == {<<1024, 0>>, <<1024, 120>>, <<1024, 200>>, <<10, 50>>, <<0, 0>>}

----------------------------------------------------------------------------
(* C primitives *)

RECURSIVE BitAnd(_, _)
\* a & b on non-negative integers
BitAnd(a, b) ==
    IF a = 0 \/ b = 0 THEN 0
    ELSE (a % 2) * (b % 2) + 2 * BitAnd(a \div 2, b \div 2)

\* the indices at which c occurs in s
Occ(s, c) == {i \in 1..Len(s) : s[i] = c}

\* the least element of a set of indices, 0 for the empty set
First(S) == IF S = {} THEN 0 ELSE CHOOSE i \in S : \A j \in S : i <= j

\* index of the first occurrence of c in s, 0 when there is none
strchr(s, c) == First(Occ(s, c))

strlen(s) == Len(s)

\* at most n leading characters of s
g_strndup(s, n) == SubSeq(s, 1, IF n < Len(s) THEN n ELSE Len(s))

\* the characters of s from index i on
StrFrom(s, i) == SubSeq(s, i, Len(s))

----------------------------------------------------------------------------
(* Ledger of a call: the allocator and collaborator invocations, in order. *)
(* obj names what the invocation produced or was handed; NULL when a       *)
(* lookup produced nothing or a release was handed a null pointer.         *)

Ev(fn, obj) == [fn |-> fn, obj |-> obj]

Resources == {"repo_id", "repo_path", "repo", "commit", "id", "file_id", "file"}

AcquireFns == {"g_strndup", "g_strdup",
               "seaf_repo_manager_get_repo",
               "seaf_commit_manager_get_commit",
               "seaf_fs_manager_path_to_obj_id",
               "seaf_fs_manager_get_seafile_id_by_path",
               "seaf_fs_manager_get_seafile"}

ReleaseFns == {"g_free", "seaf_repo_unref", "seaf_commit_unref", "seafile_unref"}

Count(trace, fns, r) ==
    Cardinality({i \in 1..Len(trace) : trace[i].fn \in fns /\ trace[i].obj = r})

\* the resources a call still holds after the invocations in trace
Held(trace) ==
    {r \in Resources : Count(trace, AcquireFns, r) > Count(trace, ReleaseFns, r)}

----------------------------------------------------------------------------
(* parse_fuse_path *)

\* variant: the length test accepts one character less
TooShort_off_by_one(n) == n < IdLen - 1

\* the length test of both branches
TooShort(n) == n < IdLen

\* variant: the whole first component is copied as the identifier
RepoIdOf_whole_component(s) ==
    IF strchr(s, Sep) = 0 THEN s ELSE SubSeq(s, 1, strchr(s, Sep) - 1)

\* the identifier copied out of the stripped path
RepoIdOf(s) == g_strndup(s, IdLen)

\* variant: only the component that follows the separator is copied
RepoPathAfter_first_component(s, p) ==
    LET r == StrFrom(s, p + 1) IN
    IF strchr(r, Sep) = 0 THEN r ELSE SubSeq(r, 1, strchr(r, Sep) - 1)

\* variant: the separator is not skipped
RepoPathAfter_keep_separator(s, p) == StrFrom(s, p)

\* the in-repository path when the separator is at index p of s
RepoPathAfter(s, p) == StrFrom(s, p + 1)

ParseFail == [ret |-> -1, repo_id |-> Empty, repo_path |-> Empty, trace |-> <<>>]

ParseOk(id, rp) ==
    [ret |-> 0, repo_id |-> id, repo_path |-> rp,
     trace |-> <<Ev("g_strndup", "repo_id"), Ev("g_strdup", "repo_path")>>]

\* one leading separator is skipped
StripLead(path) ==
    IF Len(path) > 0 /\ Head(path) = Sep THEN Tail(path) ELSE path

parse_fuse_path(path) ==
    LET s == StripLead(path)
        p == strchr(s, Sep)
    IN  IF p = 0
        THEN IF TooShort(strlen(s)) THEN ParseFail
             ELSE ParseOk(RepoIdOf(s), Root)
        ELSE IF TooShort(p - 1) THEN ParseFail
             ELSE ParseOk(RepoIdOf(s), RepoPathAfter(s, p))

----------------------------------------------------------------------------
(* Collaborators: registry, commit store, tree/object store *)

seaf_repo_manager_get_repo(mgr, repo_id) ==
    IF repo_id \in DOMAIN mgr
    THEN [ptr |-> "repo", head |-> mgr[repo_id]]
    ELSE [ptr |-> NULL, head |-> NULL]

seaf_commit_manager_get_commit(mgr, commit_id) ==
    IF commit_id \in DOMAIN mgr
    THEN [ptr |-> "commit", root_id |-> mgr[commit_id]]
    ELSE [ptr |-> NULL, root_id |-> NULL]

S_ISREG(mode) == BitAnd(mode, S_IFMT) = S_IFREG

seaf_fs_manager_path_to_obj_id(mgr, root_id, path) ==
    IF <<root_id, path>> \in DOMAIN mgr.tree
    THEN [id |-> "id", mode |-> mgr.tree[<<root_id, path>>].mode]
    ELSE [id |-> NULL, mode |-> 0]

seaf_fs_manager_get_seafile_id_by_path(mgr, root_id, path) ==
    IF <<root_id, path>> \in DOMAIN mgr.tree
       /\ S_ISREG(mgr.tree[<<root_id, path>>].mode)
    THEN mgr.tree[<<root_id, path>>].id
    ELSE NULL

seaf_fs_manager_get_seafile(mgr, file_id) ==
    IF file_id \in DOMAIN mgr.files
    THEN [ptr |-> "file", file_size |-> mgr.files[file_id]]
    ELSE [ptr |-> NULL, file_size |-> 0]

Min(a, b) == IF a < b THEN a ELSE b

read_file(file, size, offset) ==
    IF offset >= file.file_size THEN 0
    ELSE Min(size, file.file_size - offset)

----------------------------------------------------------------------------
(* Handlers.  A handler yields                                             *)
(*   returned  FALSE when the process died inside the call                 *)
(*   ret       the value returned to FUSE                                  *)
(*   repo_id, repo_path   what the resolver produced (Empty if not run or  *)
(*                        failed)                                          *)
(*   trace     the ledger of the call                                      *)
(* repo->head is read without a null test; with a null head the read of    *)
(* branch->commit_id is undefined: ub is what it produces.  Where the      *)
(* null page is not mapped the process receives SIGSEGV, in the handler    *)
(* when commit_id is a pointer member, on the first use of the identifier  *)
(* when it is an array member.  Where the process was started with the     *)
(* null page mapped (zero-filled) the read yields the empty identifier,    *)
(* which names no stored commit.  The outcome belongs to the process, not  *)
(* to the call: every call of a process meets the same one.                *)

UBOutcomes == {"SIGSEGV", ""}

\* the outcomes to consider in the current registry: the undefined read
\* happens only for a registered repository whose head is null
UBChoices ==
    IF \E id \in DOMAIN repo_mgr : repo_mgr[id] = NULL
    THEN UBOutcomes ELSE {"SIGSEGV"}

\* variant: only the lowest bit of the flags is tested
AccessMode_low_bit(flags) == BitAnd(flags, 1)

\* flags & 3
AccessMode(flags) == BitAnd(flags, O_ACCMODE)

Outcome(returned, ret, pr, trace) ==
    [returned |-> returned, ret |-> ret,
     repo_id |-> pr.repo_id, repo_path |-> pr.repo_path, trace |-> trace]

\* variant: the block releases only the handles that were acquired
OpenOut_acquired_only(repo, commit) ==
    <<Ev("g_free", "repo_id"), Ev("g_free", "repo_path")>>
    \o (IF repo.ptr = NULL THEN <<>> ELSE <<Ev("seaf_repo_unref", repo.ptr)>>)
    \o (IF commit.ptr = NULL THEN <<>> ELSE <<Ev("seaf_commit_unref", commit.ptr)>>)

\* the block at the label out of seaf_fuse_open
OpenOut(repo, commit) ==
    <<Ev("g_free", "repo_id"), Ev("g_free", "repo_path"),
      Ev("seaf_repo_unref", repo.ptr), Ev("seaf_commit_unref", commit.ptr)>>

NoCommit == [ptr |-> NULL, root_id |-> NULL]

seaf_fuse_open(path, flags, ub) ==
    IF AccessMode(flags) # O_RDONLY
    THEN Outcome(TRUE, -EACCES, ParseFail, <<>>)
    ELSE
    LET pr == parse_fuse_path(path)
        t0 == <<Ev("parse_fuse_path", "path")>> \o pr.trace
    IN
    IF pr.ret < 0
    THEN Outcome(TRUE, -ENOENT, pr, t0)
    ELSE
    LET repo == seaf_repo_manager_get_repo(repo_mgr, pr.repo_id)
        t1 == t0 \o <<Ev("seaf_repo_manager_get_repo", repo.ptr)>>
    IN
    IF repo.ptr = NULL
    THEN Outcome(TRUE, -ENOENT, pr, t1 \o OpenOut(repo, NoCommit))
    ELSE
    IF repo.head = NULL /\ ub = "SIGSEGV"
    THEN Outcome(FALSE, 0, pr, t1)
    ELSE
    LET commit_id == IF repo.head = NULL THEN ub ELSE repo.head
        commit == seaf_commit_manager_get_commit(commit_mgr, commit_id)
        t2 == t1 \o <<Ev("seaf_commit_manager_get_commit", commit.ptr)>>
    IN
    IF commit.ptr = NULL
    THEN Outcome(TRUE, -ENOENT, pr, t2 \o OpenOut(repo, commit))
    ELSE
    LET obj == seaf_fs_manager_path_to_obj_id(fs_mgr, commit.root_id, pr.repo_path)
        t3 == t2 \o <<Ev("seaf_fs_manager_path_to_obj_id", obj.id)>>
    IN
    IF obj.id = NULL
    THEN Outcome(TRUE, -ENOENT, pr, t3 \o OpenOut(repo, commit))
    ELSE
    LET t4 == t3 \o <<Ev("g_free", "id")>> IN
    IF ~S_ISREG(obj.mode)
    THEN Outcome(TRUE, -EACCES, pr, t4)
    ELSE Outcome(TRUE, 0, pr, t4 \o OpenOut(repo, commit))

\* the block at the label out of seaf_fuse_read
ReadOut(repo, commit, file_id) ==
    <<Ev("g_free", "repo_id"), Ev("g_free", "repo_path"),
      Ev("g_free", IF file_id = NULL THEN NULL ELSE "file_id"),
      Ev("seaf_repo_unref", repo.ptr), Ev("seaf_commit_unref", commit.ptr)>>

seaf_fuse_read(path, size, offset, flags, ub) ==
    IF AccessMode(flags) # O_RDONLY
    THEN Outcome(TRUE, -EACCES, ParseFail, <<>>)
    ELSE
    LET pr == parse_fuse_path(path)
        t0 == <<Ev("parse_fuse_path", "path")>> \o pr.trace
    IN
    IF pr.ret < 0
    THEN Outcome(TRUE, -ENOENT, pr, t0)
    ELSE
    LET repo == seaf_repo_manager_get_repo(repo_mgr, pr.repo_id)
        t1 == t0 \o <<Ev("seaf_repo_manager_get_repo", repo.ptr)>>
    IN
    IF repo.ptr = NULL
    THEN Outcome(TRUE, -ENOENT, pr, t1 \o ReadOut(repo, NoCommit, NULL))
    ELSE
    IF repo.head = NULL /\ ub = "SIGSEGV"
    THEN Outcome(FALSE, 0, pr, t1)
    ELSE
    LET commit_id == IF repo.head = NULL THEN ub ELSE repo.head
        commit == seaf_commit_manager_get_commit(commit_mgr, commit_id)
        t2 == t1 \o <<Ev("seaf_commit_manager_get_commit", commit.ptr)>>
    IN
    IF commit.ptr = NULL
    THEN Outcome(TRUE, -ENOENT, pr, t2 \o ReadOut(repo, commit, NULL))
    ELSE
    LET file_id == seaf_fs_manager_get_seafile_id_by_path(fs_mgr, commit.root_id,
                                                          pr.repo_path)
        t3 == t2 \o <<Ev("seaf_fs_manager_get_seafile_id_by_path",
                         IF file_id = NULL THEN NULL ELSE "file_id")>>
    IN
    IF file_id = NULL
    THEN Outcome(TRUE, -ENOENT, pr, t3 \o ReadOut(repo, commit, file_id))
    ELSE
    LET file == seaf_fs_manager_get_seafile(fs_mgr, file_id)
        t4 == t3 \o <<Ev("seaf_fs_manager_get_seafile", file.ptr)>>
    IN
    IF file.ptr = NULL
    THEN Outcome(TRUE, -ENOENT, pr, t4 \o ReadOut(repo, commit, file_id))
    ELSE Outcome(TRUE, read_file(file, size, offset), pr,
                 t4 \o <<Ev("read_file", "file")>> \o ReadOut(repo, commit, file_id))

----------------------------------------------------------------------------
(* getattr and readdir.  A call yields its return value, the stat buffer   *)
(* or the names handed to the fill callback, and the delegations it made   *)
(* (handler and path argument).                                            *)

Dot == <<".">>
DotDot == <<".", ".">>

\* paths as the kernel presents them: absolute
VfsPaths == {p \in Paths : Len(p) > 0 /\ Head(p) = Sep}

\* struct stat: the fields the handlers fill, and one they never write
StatZero == [st_mode |-> 0, st_size |-> 0, st_nlink |-> 0]

\* a buffer still holding the answer to an earlier call
StaleStat == [st_mode |-> S_IFREG + 420, st_size |-> 120, st_nlink |-> 7]

StatBufs == {StatZero, StaleStat}

\* variant: the buffer is left as the caller handed it in
memset_skipped(stbuf) == stbuf

memset(stbuf) == StatZero

RECURSIVE SeqOf(_)
\* the elements of a finite set, one after the other
SeqOf(S) ==
    IF S = {} THEN <<>>
    ELSE LET x == CHOOSE y \in S : TRUE IN <<x>> \o SeqOf(S \ {x})

IsDirMode(mode) == BitAnd(mode, S_IFMT) = 16384

\* the root object of the head commit of the repository, NULL if the
\* repository or the commit is absent
LocateRoot(repo_id) ==
    IF repo_id \in DOMAIN repo_mgr /\ repo_mgr[repo_id] \in DOMAIN commit_mgr
    THEN commit_mgr[repo_mgr[repo_id]]
    ELSE NULL

\* the names of the children of directory dir in the tree under root_id
Children(root_id, dir) ==
    LET prefix == IF dir = Root THEN Empty ELSE dir \o <<Sep>>
        n == Len(prefix)
    IN  {StrFrom(k[2], n + 1) : k \in
            {k \in DOMAIN fs_mgr.tree :
                /\ k[1] = root_id
                /\ k[2] # Root
                /\ Len(k[2]) > n
                /\ SubSeq(k[2], 1, n) = prefix
                /\ strchr(StrFrom(k[2], n + 1), Sep) = 0}}

getattr_root(path, stbuf) ==
    [ret |-> 0, stbuf |-> [stbuf EXCEPT !.st_mode = 16384 + 493]]

getattr_repo(path, stbuf) ==
    LET pr == parse_fuse_path(path)
        root_id == LocateRoot(pr.repo_id)
        key == <<root_id, pr.repo_path>>
    IN  IF pr.ret < 0 \/ root_id = NULL \/ key \notin DOMAIN fs_mgr.tree
        THEN [ret |-> -ENOENT, stbuf |-> stbuf]
        ELSE [ret |-> 0,
              stbuf |-> [stbuf EXCEPT
                 !.st_mode = fs_mgr.tree[key].mode,
                 !.st_size = IF fs_mgr.tree[key].id \in DOMAIN fs_mgr.files
                             THEN fs_mgr.files[fs_mgr.tree[key].id] ELSE 0]]

readdir_root(path, buf) ==
    [ret |-> 0, buf |-> buf \o SeqOf(DOMAIN repo_mgr)]

readdir_repo(path, buf) ==
    LET pr == parse_fuse_path(path)
        root_id == LocateRoot(pr.repo_id)
        key == <<root_id, pr.repo_path>>
    IN  IF pr.ret < 0 \/ root_id = NULL \/ key \notin DOMAIN fs_mgr.tree
        THEN [ret |-> -ENOENT, buf |-> buf]
        ELSE IF ~IsDirMode(fs_mgr.tree[key].mode)
        THEN [ret |-> -ENOENT, buf |-> buf]
        ELSE [ret |-> 0, buf |-> buf \o SeqOf(Children(root_id, pr.repo_path))]

Delegation(fn, arg) == [fn |-> fn, arg |-> arg]

\* variant: the per-repository handler is handed the path as it came
seaf_fuse_getattr_whole_path(path, stbuf) ==
    LET cleared == memset(stbuf) IN
    IF path = Root
    THEN LET r == getattr_root(path, cleared) IN
         [ret |-> r.ret, stbuf |-> r.stbuf, entries |-> <<>>,
          delegations |-> <<Delegation("getattr_root", path)>>]
    ELSE LET r == getattr_repo(path, cleared) IN
         [ret |-> r.ret, stbuf |-> r.stbuf, entries |-> <<>>,
          delegations |-> <<Delegation("getattr_repo", path)>>]

seaf_fuse_getattr(path, stbuf) ==
    LET cleared == memset(stbuf) IN
    IF path = Root
    THEN LET r == getattr_root(path, cleared) IN
         [ret |-> r.ret, stbuf |-> r.stbuf, entries |-> <<>>,
          delegations |-> <<Delegation("getattr_root", path)>>]
    ELSE LET r == getattr_repo(Tail(path), cleared) IN
         [ret |-> r.ret, stbuf |-> r.stbuf, entries |-> <<>>,
          delegations |-> <<Delegation("getattr_repo", Tail(path))>>]

\* variant: the two fixed entries are emitted after the handler's entries
seaf_fuse_readdir_dots_last(path) ==
    IF path = Root
    THEN LET r == readdir_root(path, <<>>) IN
         [ret |-> r.ret, stbuf |-> StatZero, entries |-> r.buf \o <<Dot, DotDot>>,
          delegations |-> <<Delegation("readdir_root", path)>>]
    ELSE LET r == readdir_repo(Tail(path), <<>>) IN
         [ret |-> r.ret, stbuf |-> StatZero, entries |-> r.buf \o <<Dot, DotDot>>,
          delegations |-> <<Delegation("readdir_repo", Tail(path))>>]

seaf_fuse_readdir(path) ==
    LET buf == <<Dot, DotDot>> IN
    IF path = Root
    THEN LET r == readdir_root(path, buf) IN
         [ret |-> r.ret, stbuf |-> StatZero, entries |-> r.buf,
          delegations |-> <<Delegation("readdir_root", path)>>]
    ELSE LET r == readdir_repo(Tail(path), buf) IN
         [ret |-> r.ret, stbuf |-> StatZero, entries |-> r.buf,
          delegations |-> <<Delegation("readdir_repo", Tail(path))>>]

----------------------------------------------------------------------------
(* State machine *)

Mode644 == S_IFREG + 420
Mode755Dir == 16384 + 493
Mode777Link == 40960 + 511

InitTree ==
    (<<"r1", Root>> :> [id |-> "r1", mode |-> Mode755Dir]) @@
    (<<"r1", Docs>> :> [id |-> "d1", mode |-> Mode755Dir]) @@
    (<<"r1", DocsReadme>> :> [id |-> "f1", mode |-> Mode644]) @@
    (<<"r1", LinkL>> :> [id |-> "l1", mode |-> Mode777Link]) @@
    (<<"r1", FileG>> :> [id |-> "f2", mode |-> Mode644])

\* the registry holds no repository, or the repository IdA whose head is
\* absent, names the stored commit c1, or names a commit that is not stored,
\* or both repositories
Registries ==
    {[i \in {} |-> NULL]} \cup {(IdA :> h) : h \in {NULL, "c1", "c2"}}
    \cup {(IdA :> "c1") @@ (IdB :> "c2")}

NoCall ==
    [op |-> "none", path |-> Empty, flags |-> 0, size |-> 0, offset |-> 0,
     ub |-> "SIGSEGV", again |-> FALSE,
     returned |-> TRUE, ret |-> 0, repo_id |-> Empty, repo_path |-> Empty,
     trace |-> <<>>]

Call(op, path, flags, size, offset, ub, again, out) ==
    [op |-> op, path |-> path, flags |-> flags, size |-> size, offset |-> offset,
     ub |-> ub, again |-> again,
     returned |-> out.returned, ret |-> out.ret, repo_id |-> out.repo_id,
     repo_path |-> out.repo_path, trace |-> out.trace]

\* what getattr and readdir leave behind besides the return value
NoVfs == [stbuf_in |-> StatZero, stbuf |-> StatZero, entries |-> <<>>,
          delegations |-> <<>>]

\* the worker threads of the file system process
Threads == {"t1", "t2"}

\* the frame of a worker thread that serves no request
IdleFrame ==
    [status |-> "idle", op |-> "none", path |-> Empty, flags |-> 0,
     size |-> 0, offset |-> 0, ub |-> "SIGSEGV", pc |-> 0, ret |-> 0]

Init ==
    /\ calls = [t \in Threads |-> IdleFrame]
    /\ repo_mgr \in Registries
    /\ commit_mgr = ("c1" :> "r1")
    /\ fs_mgr = [tree |-> InitTree, files |-> ("f1" :> 120)]
    /\ crashed = FALSE
    /\ last = NoCall
    /\ vfs = NoVfs
    /\ null_read \in UBChoices

\* the worker is free to take a request
Idle == ~crashed /\ last.op = "none"

\* a caller inside the process resolves a path
Resolve ==
    /\ Idle
    /\ \E path \in Paths :
          LET pr == parse_fuse_path(path) IN
          last' = Call("parse_fuse_path", path, 0, 0, 0, "SIGSEGV", FALSE,
                       Outcome(TRUE, pr.ret, pr, pr.trace))
    /\ UNCHANGED <<null_read, calls, repo_mgr, commit_mgr, fs_mgr, crashed, vfs>>

Open ==
    /\ Idle
    /\ \E path \in Paths, flags \in Flags :
          LET out == seaf_fuse_open(path, flags, null_read) IN
          /\ last' = Call("open", path, flags, 0, 0, null_read, FALSE, out)
          /\ crashed' = ~out.returned
    /\ UNCHANGED <<null_read, calls, repo_mgr, commit_mgr, fs_mgr, vfs>>

Read ==
    /\ Idle
    /\ \E path \in Paths, flags \in Flags, a \in ReadArgs :
          LET out == seaf_fuse_read(path, a[1], a[2], flags, null_read) IN
          /\ last' = Call("read", path, flags, a[1], a[2], null_read, FALSE, out)
          /\ crashed' = ~out.returned
    /\ UNCHANGED <<null_read, calls, repo_mgr, commit_mgr, fs_mgr, vfs>>

\* the result has been handed back; the worker waits for the next request
NextRequest ==
    /\ ~crashed
    /\ last.op # "none"
    /\ last' = NoCall
    /\ vfs' = NoVfs
    /\ UNCHANGED <<null_read, calls, repo_mgr, commit_mgr, fs_mgr, crashed>>

VfsResult(stbuf_in, out) ==
    [stbuf_in |-> stbuf_in, stbuf |-> out.stbuf, entries |-> out.entries,
     delegations |-> out.delegations]

Getattr ==
    /\ Idle
    /\ \E path \in VfsPaths, stbuf \in StatBufs :
          LET out == seaf_fuse_getattr(path, stbuf) IN
          /\ last' = Call("getattr", path, 0, 0, 0, "SIGSEGV", FALSE,
                          Outcome(TRUE, out.ret, ParseFail, <<>>))
          /\ vfs' = VfsResult(stbuf, out)
    /\ UNCHANGED <<null_read, calls, repo_mgr, commit_mgr, fs_mgr, crashed>>

Readdir ==
    /\ Idle
    /\ \E path \in VfsPaths :
          LET out == seaf_fuse_readdir(path) IN
          /\ last' = Call("readdir", path, 0, 0, 0, "SIGSEGV", FALSE,
                          Outcome(TRUE, out.ret, ParseFail, <<>>))
          /\ vfs' = VfsResult(StatZero, out)
    /\ UNCHANGED <<null_read, calls, repo_mgr, commit_mgr, fs_mgr, crashed>>

\* the same request is issued once more, the stores being as they were
OpenAgain ==
    /\ ~crashed
    /\ last.op = "open"
    /\ LET out == seaf_fuse_open(last.path, last.flags, last.ub) IN
          /\ last' = Call("open", last.path, last.flags, 0, 0, last.ub, TRUE, out)
          /\ crashed' = ~out.returned
    /\ UNCHANGED <<null_read, calls, repo_mgr, commit_mgr, fs_mgr, vfs>>

ReadAgain ==
    /\ ~crashed
    /\ last.op = "read"
    /\ LET out == seaf_fuse_read(last.path, last.size, last.offset,
                                 last.flags, last.ub) IN
          /\ last' = Call("read", last.path, last.flags, last.size,
                          last.offset, last.ub, TRUE, out)
          /\ crashed' = ~out.returned
    /\ UNCHANGED <<null_read, calls, repo_mgr, commit_mgr, fs_mgr, vfs>>

\* the buffer handed in may still hold the previous answer or any other
GetattrAgain ==
    /\ ~crashed
    /\ last.op = "getattr"
    /\ \E stbuf \in StatBufs \cup {vfs.stbuf} :
          LET out == seaf_fuse_getattr(last.path, stbuf) IN
          /\ last' = Call("getattr", last.path, 0, 0, 0, "SIGSEGV", TRUE,
                          Outcome(TRUE, out.ret, ParseFail, <<>>))
          /\ vfs' = VfsResult(stbuf, out)
    /\ UNCHANGED <<null_read, calls, repo_mgr, commit_mgr, fs_mgr, crashed>>

Next ==
    \/ Resolve \/ Open \/ Read \/ Getattr \/ Readdir
    \/ OpenAgain \/ ReadAgain \/ GetattrAgain
    \/ NextRequest

Spec == Init /\ [][Next]_vars

----------------------------------------------------------------------------
(* Calls in flight on several threads.  A thread runs its handler one      *)
(* allocator or collaborator invocation at a time, in the order of the     *)
(* handler's code and against the stores as they are at that moment;       *)
(* the invocations of different threads interleave freely.                 *)

ConcPaths ==
    {<<"/">> \o IdA \o <<"/">> \o DocsReadme,
     <<"/">> \o IdA,
     <<"/">> \o IdA \o <<"/">> \o NoneX,
     <<"/">> \o IdB \o <<"/">> \o DocsReadme,
     <<"/">> \o Docs}

ConcFlags == {O_RDONLY, O_RDONLY + 1}

ConcRequests ==
    {[op |-> "open", path |-> p, flags |-> f, size |-> 0, offset |-> 0] :
        p \in ConcPaths, f \in ConcFlags}
    \cup
    {[op |-> "read", path |-> p, flags |-> f, size |-> 1024, offset |-> 0] :
        p \in ConcPaths, f \in ConcFlags}

\* the handler of the frame, run against the current stores
Run(f) ==
    IF f.op = "open"
    THEN seaf_fuse_open(f.path, f.flags, f.ub)
    ELSE seaf_fuse_read(f.path, f.size, f.offset, f.flags, f.ub)

\* the invocations the thread has made so far
Executed(t) == SubSeq(Run(calls[t]).trace, 1, calls[t].pc)

\* the kernel hands a request to an idle thread
Dispatch ==
    /\ ~crashed
    /\ \E t \in Threads, r \in ConcRequests :
          /\ calls[t].status = "idle"
          /\ calls' = [calls EXCEPT ![t] =
                 [status |-> "running", op |-> r.op, path |-> r.path,
                  flags |-> r.flags, size |-> r.size, offset |-> r.offset,
                  ub |-> null_read, pc |-> 0, ret |-> 0]]
    /\ UNCHANGED <<null_read, repo_mgr, commit_mgr, fs_mgr, crashed, last, vfs>>

\* a thread makes the next invocation of its handler
Step ==
    /\ ~crashed
    /\ \E t \in Threads :
          /\ calls[t].status = "running"
          /\ calls[t].pc < Len(Run(calls[t]).trace)
          /\ calls' = [calls EXCEPT ![t].pc = @ + 1]
    /\ UNCHANGED <<null_read, repo_mgr, commit_mgr, fs_mgr, crashed, last, vfs>>

\* a thread's handler returns
Return ==
    /\ ~crashed
    /\ \E t \in Threads :
          /\ calls[t].status = "running"
          /\ calls[t].pc = Len(Run(calls[t]).trace)
          /\ Run(calls[t]).returned
          /\ calls' = [calls EXCEPT ![t].status = "done",
                                    ![t].ret = Run(calls[t]).ret]
    /\ UNCHANGED <<null_read, repo_mgr, commit_mgr, fs_mgr, crashed, last, vfs>>

\* a thread's handler faults: the process dies with every call in flight
Fault ==
    /\ ~crashed
    /\ \E t \in Threads :
          /\ calls[t].status = "running"
          /\ calls[t].pc = Len(Run(calls[t]).trace)
          /\ ~Run(calls[t]).returned
    /\ crashed' = TRUE
    /\ calls' = [u \in Threads |->
                   IF calls[u].status = "running"
                   THEN [calls[u] EXCEPT !.status = "killed"]
                   ELSE calls[u]]
    /\ UNCHANGED <<null_read, repo_mgr, commit_mgr, fs_mgr, last, vfs>>

\* the result has been handed back; the thread is free again
Retire ==
    /\ ~crashed
    /\ \E t \in Threads :
          /\ calls[t].status = "done"
          /\ calls' = [calls EXCEPT ![t] = IdleFrame]
    /\ UNCHANGED <<null_read, repo_mgr, commit_mgr, fs_mgr, crashed, last, vfs>>

NextConc == Dispatch \/ Step \/ Return \/ Fault \/ Retire

SpecConc == Init /\ [][NextConc]_vars

----------------------------------------------------------------------------
(* Properties *)

IsOpen == last.op = "open"
IsRead == last.op = "read"
IsParse == last.op = "parse_fuse_path"

\* the access-mode bits of the flags ask for read-only
ReadOnlyFlags == last.flags % 4 = 0

\* the path of the last call without one leading separator
Stripped == IF last.path # <<>> /\ last.path[1] = "/" THEN Tail(last.path) ELSE last.path

HasSep == \E i \in 1..Len(Stripped) : Stripped[i] = "/"

FirstSep == CHOOSE i \in 1..Len(Stripped) :
                Stripped[i] = "/" /\ \A j \in 1..(i - 1) : Stripped[j] # "/"

\* the characters before the first separator, or the whole remainder
FirstComp == IF HasSep THEN SubSeq(Stripped, 1, FirstSep - 1) ELSE Stripped

\* the characters after the first separator
AfterFirstSep == SubSeq(Stripped, FirstSep + 1, Len(Stripped))

TheFilePath == <<"/">> \o IdA \o <<"/">> \o DocsReadme

\* C1: when open returns, whatever the outcome, it holds none of the
\* resources it acquired (repository handle, commit handle, the resolver's
\* two strings): each was released exactly once.
C1_OpenReleasesAll ==
    (IsOpen /\ last.returned) =>
        /\ Held(last.trace) = {}
        /\ \A r \in Resources :
              Count(last.trace, AcquireFns, r) = Count(last.trace, ReleaseFns, r)

\* C2: when read returns, on success or on error, it holds none of the
\* handles it acquired; in particular not the file content handle.
C2_ReadReleasesAll ==
    (IsRead /\ last.returned) => Held(last.trace) = {}

\* C3: open and read with access-mode bits other than read-only return
\* AccessDenied for every path and registry, having called neither the
\* resolver nor any collaborator and having acquired nothing.
C3_NonReadOnlyDenied ==
    ((IsOpen \/ IsRead) /\ ~ReadOnlyFlags) =>
        /\ last.returned
        /\ last.ret = -EACCES
        /\ last.trace = <<>>

C3_Witness ==
    /\ IsOpen
    /\ last.flags = 2
    /\ last.path = TheFilePath
    /\ IdA \in DOMAIN repo_mgr /\ repo_mgr[IdA] = "c1"
    /\ last.ret = -EACCES

\* C4 as stated: every path shorter than 37 characters after one leading
\* separator is stripped fails to resolve.
C4_ShorterThan37Fails ==
    (IsParse /\ Len(Stripped) < IdLen + 1) => last.ret = -1

\* C4 amended: every path shorter than 36 characters after one leading
\* separator is stripped fails to resolve.
C4_ShorterThan36Fails ==
    (IsParse /\ Len(Stripped) < IdLen) => last.ret = -1

C4_Witness ==
    /\ IsParse
    /\ Len(Stripped) = IdLen - 1
    /\ ~HasSep
    /\ last.ret = -1

\* C5: for a path that is a 36-character identifier, alone or followed by
\* one separator, the resolver succeeds with the in-repository path "/".
C5_IdentifierResolvesToRoot ==
    (IsParse /\ \E id \in Ids : Stripped \in {id, id \o <<"/">>}) =>
        /\ last.ret = 0
        /\ last.repo_path = <<"/">>

\* C6: for a path <36-char-id>/<rest> the in-repository path is <rest>,
\* character for character, embedded separators included.
C6_RestVerbatim ==
    (IsParse /\ HasSep /\ FirstSep = IdLen + 1) =>
        /\ last.ret = 0
        /\ last.repo_path = AfterFirstSep

C6_Witness ==
    /\ IsParse
    /\ Stripped = IdA \o <<"/">> \o DocsReadme
    /\ last.ret = 0
    /\ last.repo_path = DocsReadme

\* C7 as stated: for /<36-char-id>/docs/readme.txt the resolver returns the
\* identifier and the in-repository path /docs/readme.txt, which open hands
\* to the tree lookup.
C7_PathKeepsLeadingSeparator ==
    ((IsParse \/ (IsOpen /\ ReadOnlyFlags)) /\ last.path = TheFilePath) =>
        /\ last.repo_id = IdA
        /\ last.repo_path = SlashDocsReadme

\* C7 amended: for /<36-char-id>/docs/readme.txt the resolver returns the
\* identifier and the in-repository path docs/readme.txt, without a leading
\* separator, which open hands to the tree lookup.
C7_PathWithoutLeadingSeparator ==
    ((IsParse \/ (IsOpen /\ ReadOnlyFlags)) /\ last.path = TheFilePath) =>
        /\ last.repo_id = IdA
        /\ last.repo_path = DocsReadme

C7_Witness ==
    /\ IsOpen
    /\ last.path = TheFilePath
    /\ last.repo_id = IdA
    /\ last.repo_path = DocsReadme
    /\ \E i \in 1..Len(last.trace) :
          last.trace[i] = Ev("seaf_fs_manager_path_to_obj_id", "id")
    /\ last.ret = 0

\* C8: the resolver fails exactly when the first component (the whole
\* remainder when there is no separator) has fewer than 36 characters; when
\* it succeeds the identifier is the first 36 characters of the stripped
\* path, and characters of the component beyond the 36th appear neither in
\* the identifier nor in the in-repository path.
C8_IdentifierIsFirst36 ==
    IsParse =>
        /\ last.ret \in {0, -1}
        /\ last.ret = -1 <=> Len(FirstComp) < IdLen
        /\ last.ret = 0 =>
              /\ last.repo_id = SubSeq(Stripped, 1, IdLen)
              /\ last.repo_path = IF HasSep THEN AfterFirstSep ELSE <<"/">>

C8_Witness ==
    /\ IsParse
    /\ HasSep
    /\ Len(FirstComp) = IdLen + 1
    /\ last.ret = 0
    /\ last.repo_id = IdB
    /\ last.repo_path = DocsReadme

\* the mode word names a regular file
RegularMode(mode) == (mode \div 4096) % 16 = 8

\* the commit the registry's head of the resolved repository names is stored
LocatesCommit ==
    /\ last.repo_id \in DOMAIN repo_mgr
    /\ repo_mgr[last.repo_id] \in DOMAIN commit_mgr

WalkKey == <<commit_mgr[repo_mgr[last.repo_id]], last.repo_path>>

\* C9: open with read-only flags returns NotFound if the path does not
\* parse, the repository is not registered, its head commit cannot be
\* fetched or the tree holds nothing at the in-repository path;
\* AccessDenied if the object found is not a regular file; 0 otherwise.
C9_OpenResult ==
    (IsOpen /\ ReadOnlyFlags) =>
        /\ last.returned
        /\ last.ret =
             IF Len(FirstComp) < IdLen THEN -ENOENT
             ELSE IF ~LocatesCommit THEN -ENOENT
             ELSE IF WalkKey \notin DOMAIN fs_mgr.tree THEN -ENOENT
             ELSE IF ~RegularMode(fs_mgr.tree[WalkKey].mode) THEN -EACCES
             ELSE 0

\* the bytes the chunked read yields for a file of n bytes
BytesFrom(n, size, offset) ==
    IF offset >= n THEN 0 ELSE IF size < n - offset THEN size ELSE n - offset

\* C10: read with read-only flags returns NotFound if the path does not
\* parse, the repository or its head commit is absent, the path names no
\* file or the file object cannot be fetched; otherwise the number of bytes
\* the chunked read yields, min(size, bytes from offset), 0 at end of file.
C10_ReadResult ==
    (IsRead /\ ReadOnlyFlags) =>
        /\ last.returned
        /\ last.ret =
             IF Len(FirstComp) < IdLen THEN -ENOENT
             ELSE IF ~LocatesCommit THEN -ENOENT
             ELSE IF WalkKey \notin DOMAIN fs_mgr.tree THEN -ENOENT
             ELSE IF ~RegularMode(fs_mgr.tree[WalkKey].mode) THEN -ENOENT
             ELSE IF fs_mgr.tree[WalkKey].id \notin DOMAIN fs_mgr.files THEN -ENOENT
             ELSE BytesFrom(fs_mgr.files[fs_mgr.tree[WalkKey].id],
                            last.size, last.offset)

IsReaddir == last.op = "readdir"
IsGetattr == last.op = "getattr"

\* the entries emitted after the two fixed ones
AfterDots == SubSeq(vfs.entries, 3, Len(vfs.entries))

\* C11: readdir hands "." and then ".." to the fill callback before any
\* other entry, and for the mount root "/" the entries that follow are
\* exactly one per registered repository, whatever the repositories hold.
C11_ReaddirDotsThenRepos ==
    IsReaddir =>
        /\ Len(vfs.entries) >= 2
        /\ vfs.entries[1] = Dot
        /\ vfs.entries[2] = DotDot
        /\ last.path = Root =>
             /\ last.ret = 0
             /\ Len(AfterDots) = Cardinality(DOMAIN repo_mgr)
             /\ \A id \in DOMAIN repo_mgr :
                   Cardinality({k \in 1..Len(AfterDots) : AfterDots[k] = id}) = 1

\* readdir of "/" with two repositories registered, one of them without a
\* stored head commit, has listed both after the two fixed entries
C11_Witness ==
    /\ IsReaddir
    /\ last.path = Root
    /\ Cardinality(DOMAIN repo_mgr) = 2
    /\ Len(vfs.entries) = 4

\* C17: getattr and readdir take the root case exactly when the path is
\* "/", handing the root handler the path itself; for every other path
\* they delegate exactly once to the per-repository handler with the path
\* minus its first character; getattr clears the whole stat structure
\* before delegating, so nothing of an earlier answer survives in it.
C17_RootDispatch ==
    (IsGetattr \/ IsReaddir) =>
        /\ Len(vfs.delegations) = 1
        /\ vfs.delegations[1].fn =
             IF last.path = Root
             THEN (IF IsGetattr THEN "getattr_root" ELSE "readdir_root")
             ELSE (IF IsGetattr THEN "getattr_repo" ELSE "readdir_repo")
        /\ vfs.delegations[1].arg =
             IF last.path = Root THEN last.path ELSE Tail(last.path)
        /\ IsGetattr =>
             /\ vfs.stbuf.st_nlink = 0
             /\ last.ret < 0 => vfs.stbuf = StatZero
        /\ (IsGetattr /\ last.path = TheFilePath /\ LocateRoot(IdA) # NULL) =>
             /\ last.ret = 0
             /\ vfs.stbuf.st_size = 120

\* getattr of the path of a stored file into a buffer that held an earlier
\* answer: the per-repository handler received the path minus its leading
\* separator, found the file, and the link count of the earlier answer is gone
C17_Witness ==
    /\ IsGetattr
    /\ last.path = TheFilePath
    /\ vfs.stbuf_in = StaleStat
    /\ vfs.delegations[1].arg = Tail(TheFilePath)
    /\ last.ret = 0
    /\ vfs.stbuf.st_nlink = 0

Trace == last.trace

\* the positions of the trace at which fn was invoked
Calls(fn) == {i \in 1..Len(Trace) : Trace[i].fn = fn}

Invoked(fn, obj) == \E i \in Calls(fn) : Trace[i].obj = obj

\* C15 as stated: open and read invoke repository unref and commit unref
\* only for a handle the call acquired, never on an absent (null) handle.
C15_NoReleaseOnNull ==
    (IsOpen \/ IsRead) =>
        /\ ~Invoked("seaf_repo_unref", NULL)
        /\ ~Invoked("seaf_commit_unref", NULL)

\* C15: open and read invoke repository unref and commit unref at most once
\* each, and only with what the call's own lookup returned: the acquired
\* handle, or null when the lookup found nothing or was never reached.  On
\* the exit taken when the repository is not registered both are invoked
\* with null; on the exit taken when the commit cannot be fetched the
\* repository handle is released and commit unref is invoked with null.
C15_ReleaseOwnOrNull ==
    (IsOpen \/ IsRead) =>
        /\ Cardinality(Calls("seaf_repo_unref")) <= 1
        /\ Cardinality(Calls("seaf_commit_unref")) <= 1
        /\ \A i \in Calls("seaf_repo_unref") :
              \E j \in Calls("seaf_repo_manager_get_repo") :
                 j < i /\ Trace[j].obj = Trace[i].obj
        /\ \A i \in Calls("seaf_commit_unref") :
              \/ \E j \in Calls("seaf_commit_manager_get_commit") :
                    j < i /\ Trace[j].obj = Trace[i].obj
              \/ /\ Calls("seaf_commit_manager_get_commit") = {}
                 /\ Trace[i].obj = NULL
        /\ Invoked("seaf_repo_manager_get_repo", NULL) =>
              /\ Invoked("seaf_repo_unref", NULL)
              /\ Invoked("seaf_commit_unref", NULL)
        /\ Invoked("seaf_commit_manager_get_commit", NULL) =>
              /\ Invoked("seaf_repo_unref", "repo")
              /\ Invoked("seaf_commit_unref", NULL)

\* open of a path in a registered repository whose head names a commit that
\* is not stored: the repository handle was released and commit unref was
\* invoked with null
C15_Witness ==
    /\ IsOpen
    /\ last.repo_id \in DOMAIN repo_mgr
    /\ repo_mgr[last.repo_id] = "c2"
    /\ Invoked("seaf_commit_manager_get_commit", NULL)
    /\ Invoked("seaf_commit_unref", NULL)
    /\ last.ret = -ENOENT

\* the call obtained a repository whose head is absent
HeadAbsent ==
    /\ Invoked("seaf_repo_manager_get_repo", "repo")
    /\ last.repo_id \in DOMAIN repo_mgr
    /\ repo_mgr[last.repo_id] = NULL

\* C16: for a registered repository whose head is absent, open and read
\* return NotFound and release the repository handle, and no commit
\* identifier is read through the absent head (no commit is fetched).
C16_AbsentHeadNotFound ==
    ((IsOpen \/ IsRead) /\ HeadAbsent) =>
        /\ last.returned
        /\ last.ret = -ENOENT
        /\ Invoked("seaf_repo_unref", "repo")
        /\ Calls("seaf_commit_manager_get_commit") = {}

\* the stages of the call, in program order
Pipeline ==
    IF IsOpen
    THEN <<"parse_fuse_path", "seaf_repo_manager_get_repo",
           "seaf_commit_manager_get_commit", "seaf_fs_manager_path_to_obj_id">>
    ELSE <<"parse_fuse_path", "seaf_repo_manager_get_repo",
           "seaf_commit_manager_get_commit",
           "seaf_fs_manager_get_seafile_id_by_path",
           "seaf_fs_manager_get_seafile", "read_file">>

StageFns ==
    {"parse_fuse_path", "seaf_repo_manager_get_repo",
     "seaf_commit_manager_get_commit", "seaf_fs_manager_path_to_obj_id",
     "seaf_fs_manager_get_seafile_id_by_path", "seaf_fs_manager_get_seafile",
     "read_file"}

Succeeded(fn) ==
    IF fn = "parse_fuse_path"
    THEN Calls(fn) # {} /\ Invoked("g_strndup", "repo_id")
    ELSE \E i \in Calls(fn) : Trace[i].obj # NULL

Failed(fn) == Calls(fn) # {} /\ ~Succeeded(fn)

\* every stage is invoked at most once, only a stage of the call's own
\* pipeline is invoked, and a stage is invoked only after the stage before
\* it was invoked and succeeded
StagesInOrder ==
    /\ \A fn \in StageFns :
          /\ Cardinality(Calls(fn)) <= 1
          /\ Calls(fn) # {} => \E k \in 1..Len(Pipeline) : Pipeline[k] = fn
    /\ \A k \in 2..Len(Pipeline) :
          Calls(Pipeline[k]) # {} =>
             /\ Succeeded(Pipeline[k - 1])
             /\ \A i \in Calls(Pipeline[k]), j \in Calls(Pipeline[k - 1]) : j < i

\* a failing stage ends the call with NotFound
FailureIsNotFound ==
    \A fn \in StageFns : Failed(fn) => (last.returned /\ last.ret = -ENOENT)

\* C14: in every open and read call the stages run in the order resolve,
\* registry lookup, commit fetch, tree lookup (for read: file fetch, byte
\* read), each at most once and only after every earlier stage succeeded,
\* the first failing stage ends the call with NotFound, and the call
\* terminates with a result.
C14_StagedPipelineTerminates ==
    (IsOpen \/ IsRead) =>
        /\ StagesInOrder
        /\ FailureIsNotFound
        /\ last.returned

\* the part of C14 that holds in every call: order, no retries, first
\* failure is NotFound
C14_StagesOnly ==
    (IsOpen \/ IsRead) => (StagesInOrder /\ FailureIsNotFound)

\* the step issues once more the request that was answered last
SameRequest ==
    /\ last.op \in {"open", "read", "getattr"}
    /\ last'.op = last.op
    /\ last'.path = last.path
    /\ last'.flags = last.flags
    /\ last'.size = last.size
    /\ last'.offset = last.offset
    /\ repo_mgr' = repo_mgr
    /\ commit_mgr' = commit_mgr
    /\ fs_mgr' = fs_mgr

SameResult ==
    /\ last'.returned = last.returned
    /\ last'.ret = last.ret
    /\ vfs'.stbuf = vfs.stbuf

Handles == {"repo", "commit", "file"}

\* C13: in any interleaving of concurrently running open and read calls
\* each call returns the result it returns when run alone against the same
\* stores (so a call that would return alone is never lost), and every
\* handle a call acquired has been released when the call returns.
C13_ConcurrentCallsIndependent ==
    \A t \in Threads :
        /\ calls[t].status = "done" =>
              /\ calls[t].ret = Run(calls[t]).ret
              /\ Held(Executed(t)) \cap Handles = {}
        /\ calls[t].status = "killed" => ~Run(calls[t]).returned

\* the part of C13 that holds: no step of a handler writes the registry,
\* the commit store or the object store reached through the session
C13_SessionOnlyRead == [][UNCHANGED <<repo_mgr, commit_mgr, fs_mgr>>]_vars

====
